---- MODULE Spec2Model ----
(***************************************************************************)
(* Model of rss_to_slack.py: one run of main(), the date normalisation     *)
(* parse_pubdate and the webhook call post_to_slack.                       *)
(*                                                                         *)
(* Instants are small integers (minutes on the UTC time line).  An         *)
(* Optional[datetime] is a sequence: <<>> is None, <<d>> is the instant d. *)
(* The environment (the feeds' contents, the webhook's answers, the clock) *)
(* is drawn with \E at the statement that reads it.                        *)
(***************************************************************************)
EXTENDS Integers, Sequences, FiniteSets, TLC

\* ---- bounds of the model ------------------------------------------------
MaxPieces  == 2   \* comma-separated pieces in FEED_URLS
MaxEntries == 2   \* entries in one parsed feed
MaxDate    == 2   \* instants are 0..MaxDate
MaxWindow  == 1   \* POST_WINDOW_MIN is 0..MaxWindow
MaxCap     == 2   \* MAX_POSTS is -1..MaxCap

VARIABLES
    \* configuration, module level (lines 17-23)
    FEED_URLS, WEBHOOK, WINDOWMIN, DRY_RUN, MAX_POSTS,
    \* main(): position and run-wide locals
    pc, cutoff, feeds, feedIdx, grand_total, grand_in_window, grand_posted,
    \* main(): locals of the feed loop
    total, in_window, posted, skipped_old, skipped_no_date, skipped_error,
    entries, entryIdx,
    \* main(): locals of the entry loop
    pub, ok,
    \* what the run did to the outside: calls made, lines printed, exit code
    fetchLog, sumEntries, sumPosted,
    posts, httpPosts, lastAttempt, capInfo, summary, ret,
    \* parse_pubdate applied to one entry (specification SpecPD)
    entry, pd

cfgVars   == <<FEED_URLS, WEBHOOK, WINDOWMIN, DRY_RUN, MAX_POSTS>>
runVars   == <<cutoff, feeds, feedIdx, grand_total, grand_in_window, grand_posted>>
feedVars  == <<total, in_window, posted, skipped_old, skipped_no_date, skipped_error,
               entries, entryIdx>>
entryVars == <<pub, ok>>
fetchVars == <<fetchLog, sumEntries>>
postVars  == <<posts, httpPosts, lastAttempt>>
outVars   == <<sumPosted, capInfo, summary, ret>>
pdVars    == <<entry, pd>>
vars      == <<cfgVars, pc, runVars, feedVars, entryVars, fetchVars, postVars,
               outVars, pdVars>>

None  == <<>>
Dates == 0..MaxDate
\* datetime.now(UTC) at line 83: the latest instant of the model
Now   == MaxDate
\* the URL written in the i-th piece of FEED_URLS, when that piece is not blank
UrlNames == <<"a", "b", "c", "d">>
\* UTC offsets a free-text date may carry
UtcOffsets == {0, 1}

\* ---- feed entries: the five date fields parse_pubdate reads --------------
\* A structured field is absent (missing, None or empty: falsy), a tuple
\* datetime() rejects, or a tuple of the instant t.
StructVals ==
    {[kind |-> "absent"], [kind |-> "malformed"]}
        \cup {[kind |-> "time", t |-> d] : d \in Dates}

\* A free-text field is absent (missing or empty: falsy), a string dateutil
\* rejects, or a string of the local time `local` with an optional UTC offset.
TextVals ==
    {[kind |-> "absent"], [kind |-> "garbage"]}
        \cup {[kind |-> "text", local |-> d, utcoffset |-> o] :
                 d \in Dates, o \in {None} \cup {<<k>> : k \in UtcOffsets}}

StructKeys == <<"published_parsed", "updated_parsed">>
TextKeys   == <<"published", "updated", "created">>

AllEntries ==
    [published_parsed : StructVals, updated_parsed : StructVals,
     published : TextVals, updated : TextVals, created : TextVals]

NoEntry ==
    [published_parsed |-> [kind |-> "absent"], updated_parsed |-> [kind |-> "absent"],
     published |-> [kind |-> "absent"], updated |-> [kind |-> "absent"],
     created |-> [kind |-> "absent"]]

\* ---- parse_pubdate (lines 33-57) -----------------------------------------
\* lines 41-45: `if t: try: return datetime(*t[:6], tzinfo=UTC) except: pass`;
\* None means the loop goes on to the next key.
StructDate(t) ==
    IF t.kind = "time" THEN <<t.t>> ELSE None

\* lines 49-56: `if s: try: dt = parse(s); naive -> replace(tzinfo=UTC);
\* return dt.astimezone(UTC) except: pass`
TextDate(s) ==
    IF s.kind = "text"
    THEN IF s.utcoffset = None THEN <<s.local>> ELSE <<s.local - s.utcoffset[1]>>
    ELSE None

RECURSIVE StructLoop(_, _)
StructLoop(e, i) ==
    IF i > Len(StructKeys) THEN None
    ELSE LET d == StructDate(e[StructKeys[i]])
         IN  IF d # None THEN d ELSE StructLoop(e, i + 1)

RECURSIVE TextLoop(_, _)
TextLoop(e, i) ==
    IF i > Len(TextKeys) THEN None
    ELSE LET d == TextDate(e[TextKeys[i]])
         IN  IF d # None THEN d ELSE TextLoop(e, i + 1)

\* mutant: the free-text fields are tried before the structured ones
parse_pubdate_TextFirst(e) ==
    LET d == TextLoop(e, 1)
    IN  IF d # None THEN d ELSE StructLoop(e, 1)

parse_pubdate(e) ==
    LET d == StructLoop(e, 1)
    IN  IF d # None THEN d ELSE TextLoop(e, 1)

\* every value `pub = parse_pubdate(entry)` can take on a feed's entry
PubValues == {parse_pubdate(e) : e \in AllEntries}

\* ---- post_to_slack (lines 59-71) -----------------------------------------
StatusCodes == {199, 200, 299, 300}
Responses ==
    {[kind |-> "http", code |-> c] : c \in StatusCodes} \cup {[kind |-> "exception"]}

\* mutant: DRY_RUN is not consulted
post_to_slack_NoDryRun(dry, resp) ==
    IF resp.kind = "exception"
    THEN [ok |-> FALSE, status |-> -1, sent |-> TRUE]
    ELSE [ok |-> (200 <= resp.code /\ resp.code < 300), status |-> resp.code,
          sent |-> TRUE]

\* `sent` tells whether requests.post was called
post_to_slack(dry, resp) ==
    IF dry
    THEN [ok |-> TRUE, status |-> 0, sent |-> FALSE]
    ELSE IF resp.kind = "exception"
         THEN [ok |-> FALSE, status |-> -1, sent |-> TRUE]
         ELSE [ok |-> (200 <= resp.code /\ resp.code < 300), status |-> resp.code,
               sent |-> TRUE]

\* ---- main(): input check and set-up (lines 74-96) ------------------------
\* FEED_URLS is the stripped string split at its commas, each piece stripped:
\* the empty string is the one piece "".
EmptyString == <<"">>

FeedUrlStrings ==
    UNION {{s \in [1..n -> {""} \cup {UrlNames[i] : i \in 1..n}] :
               \A i \in 1..n : s[i] \in {"", UrlNames[i]}} : n \in 1..MaxPieces}

\* line 93: feeds = [u.strip() for u in FEED_URLS.split(",") if u.strip()]
SplitFeeds(s) ==
    SelectSeq(s, LAMBDA u : u # "")

\* mutant: the feed list is checked before the webhook
InputCheck_FeedsFirst(webhook, feed_urls) ==
    IF feed_urls = EmptyString THEN "warn"
    ELSE IF webhook = "" THEN "fatal"
    ELSE "run"

\* lines 76-81: which of the two early returns is taken, if any
InputCheck(webhook, feed_urls) ==
    IF webhook = "" THEN "fatal"
    ELSE IF feed_urls = EmptyString THEN "warn"
    ELSE "run"

\* lines 76-78
MissingWebhook ==
    /\ pc = "start"
    /\ InputCheck(WEBHOOK, FEED_URLS) = "fatal"
    /\ ret' = <<2>>
    /\ pc' = "done"
    /\ UNCHANGED <<cfgVars, runVars, feedVars, entryVars, fetchVars, postVars,
                   sumPosted, capInfo, summary, pdVars>>

\* lines 79-81
EmptyFeedUrls ==
    /\ pc = "start"
    /\ InputCheck(WEBHOOK, FEED_URLS) = "warn"
    /\ ret' = <<0>>
    /\ pc' = "done"
    /\ UNCHANGED <<cfgVars, runVars, feedVars, entryVars, fetchVars, postVars,
                   sumPosted, capInfo, summary, pdVars>>

\* lines 83-96
StartRun ==
    /\ pc = "start"
    /\ InputCheck(WEBHOOK, FEED_URLS) = "run"
    /\ cutoff' = Now - WINDOWMIN
    /\ feeds' = SplitFeeds(FEED_URLS)
    /\ feedIdx' = 0
    /\ grand_total' = 0
    /\ grand_in_window' = 0
    /\ grand_posted' = 0
    /\ pc' = "next_feed"
    /\ UNCHANGED <<cfgVars, feedVars, entryVars, fetchVars, postVars, outVars, pdVars>>

\* ---- main(): the feed loop (lines 98-157) -------------------------------
\* mutant: a feed that fails to parse ends the run
FetchRaises_Abort ==
    /\ pc = "next_feed"
    /\ feedIdx < Len(feeds)
    /\ total' = 0
    /\ in_window' = 0
    /\ posted' = 0
    /\ skipped_old' = 0
    /\ skipped_no_date' = 0
    /\ skipped_error' = 1
    /\ capInfo' = FALSE
    /\ fetchLog' = Append(fetchLog, [url |-> feeds[feedIdx + 1], raised |-> TRUE])
    /\ ret' = <<0>>
    /\ pc' = "done"
    /\ UNCHANGED <<cfgVars, runVars, entries, entryIdx, entryVars, sumEntries,
                   postVars, sumPosted, summary, pdVars>>

\* lines 98-108 and 148-151: feedparser.parse(url) raises
FetchRaises ==
    /\ pc = "next_feed"
    /\ feedIdx < Len(feeds)
    /\ total' = 0
    /\ in_window' = 0
    /\ posted' = 0
    /\ skipped_old' = 0
    /\ skipped_no_date' = 0
    /\ skipped_error' = 1
    /\ capInfo' = FALSE
    /\ fetchLog' = Append(fetchLog, [url |-> feeds[feedIdx + 1], raised |-> TRUE])
    /\ pc' = "feed_end"
    /\ UNCHANGED <<cfgVars, runVars, entries, entryIdx, entryVars, sumEntries,
                   postVars, sumPosted, summary, ret, pdVars>>

\* lines 98-111: the feed is parsed and has n entries
FetchOk ==
    /\ pc = "next_feed"
    /\ feedIdx < Len(feeds)
    /\ \E n \in 0..MaxEntries :
          /\ entries' = n
          /\ total' = n
          /\ sumEntries' = sumEntries + n
    /\ entryIdx' = 0
    /\ in_window' = 0
    /\ posted' = 0
    /\ skipped_old' = 0
    /\ skipped_no_date' = 0
    /\ skipped_error' = 0
    /\ capInfo' = FALSE
    /\ fetchLog' = Append(fetchLog, [url |-> feeds[feedIdx + 1], raised |-> FALSE])
    /\ pc' = "next_entry"
    /\ UNCHANGED <<cfgVars, runVars, entryVars, postVars, sumPosted, summary, ret,
                   pdVars>>

\* mutant: the cap test is off by one
CapReached_OffByOne(gp, maxp) ==
    gp > maxp

\* line 114
CapReached(gp, maxp) ==
    gp >= maxp

\* mutant: a date equal to the cutoff counts as old
IsOld_Inclusive(p, c) ==
    p <= c

\* line 124
IsOld(p, c) ==
    p < c

\* lines 113-116: the cap is reached, the loop over the entries is left
CapBreak ==
    /\ pc = "next_entry"
    /\ entryIdx < entries
    /\ CapReached(grand_posted, MAX_POSTS)
    /\ capInfo' = TRUE
    /\ pc' = "feed_end"
    /\ UNCHANGED <<cfgVars, runVars, feedVars, entryVars, fetchVars, postVars,
                   sumPosted, summary, ret, pdVars>>

\* line 113: no entry is left
EntriesDone ==
    /\ pc = "next_entry"
    /\ entryIdx = entries
    /\ pc' = "feed_end"
    /\ UNCHANGED <<cfgVars, runVars, feedVars, entryVars, fetchVars, postVars,
                   outVars, pdVars>>

\* lines 113-121: the next entry has no date
EntryNoDate ==
    /\ pc = "next_entry"
    /\ entryIdx < entries
    /\ ~CapReached(grand_posted, MAX_POSTS)
    /\ \E p \in PubValues :
          /\ p = None
          /\ pub' = p
    /\ skipped_no_date' = skipped_no_date + 1
    /\ entryIdx' = entryIdx + 1
    /\ UNCHANGED <<cfgVars, pc, runVars, total, in_window, posted, skipped_old,
                   skipped_error, entries, ok, fetchVars, postVars, outVars,
                   pdVars>>

\* mutant: an old entry is not counted
EntryOld_Uncounted ==
    /\ pc = "next_entry"
    /\ entryIdx < entries
    /\ ~CapReached(grand_posted, MAX_POSTS)
    /\ \E p \in PubValues :
          /\ p # None
          /\ IsOld(p[1], cutoff)
          /\ pub' = p
    /\ entryIdx' = entryIdx + 1
    /\ UNCHANGED <<cfgVars, pc, runVars, total, in_window, posted, skipped_old,
                   skipped_no_date, skipped_error, entries, ok, fetchVars,
                   postVars, outVars, pdVars>>

\* lines 113-126: the next entry is older than the cutoff
EntryOld ==
    /\ pc = "next_entry"
    /\ entryIdx < entries
    /\ ~CapReached(grand_posted, MAX_POSTS)
    /\ \E p \in PubValues :
          /\ p # None
          /\ IsOld(p[1], cutoff)
          /\ pub' = p
    /\ skipped_old' = skipped_old + 1
    /\ entryIdx' = entryIdx + 1
    /\ UNCHANGED <<cfgVars, pc, runVars, total, in_window, posted, skipped_no_date,
                   skipped_error, entries, ok, fetchVars, postVars, outVars,
                   pdVars>>

\* lines 113-143: the next entry is in the window and its post succeeds
EntryPosted ==
    /\ pc = "next_entry"
    /\ entryIdx < entries
    /\ ~CapReached(grand_posted, MAX_POSTS)
    /\ \E p \in PubValues :
          /\ p # None
          /\ ~IsOld(p[1], cutoff)
          /\ pub' = p
    /\ in_window' = in_window + 1
    /\ \E resp \in Responses :
          LET r == post_to_slack(DRY_RUN, resp)
          IN  /\ r.ok
              /\ ok' = r.ok
              /\ httpPosts' = httpPosts + (IF r.sent THEN 1 ELSE 0)
    /\ posts' = posts + 1
    /\ lastAttempt' = <<feedIdx + 1, entryIdx + 1>>
    /\ posted' = posted + 1
    /\ grand_posted' = grand_posted + 1
    /\ entryIdx' = entryIdx + 1
    /\ UNCHANGED <<cfgVars, pc, cutoff, feeds, feedIdx, grand_total, grand_in_window,
                   total, skipped_old, skipped_no_date, skipped_error, entries,
                   fetchVars, outVars, pdVars>>

\* mutant: a failed post is tried again
EntryPostFailed_Retry ==
    /\ pc = "next_entry"
    /\ entryIdx < entries
    /\ ~CapReached(grand_posted, MAX_POSTS)
    /\ \E p \in PubValues :
          /\ p # None
          /\ ~IsOld(p[1], cutoff)
          /\ pub' = p
    /\ \E resp \in Responses :
          LET r == post_to_slack(DRY_RUN, resp)
          IN  /\ ~r.ok
              /\ ok' = r.ok
              /\ httpPosts' = httpPosts + (IF r.sent THEN 1 ELSE 0)
    /\ posts' = posts + 1
    /\ lastAttempt' = <<feedIdx + 1, entryIdx + 1>>
    /\ skipped_error' = skipped_error + 1
    /\ skipped_error < MaxEntries
    /\ UNCHANGED <<cfgVars, pc, runVars, total, in_window, posted, skipped_old,
                   skipped_no_date, entries, entryIdx, fetchVars, outVars, pdVars>>

\* lines 113-138 and 144-146: the next entry is in the window and its post fails
EntryPostFailed ==
    /\ pc = "next_entry"
    /\ entryIdx < entries
    /\ ~CapReached(grand_posted, MAX_POSTS)
    /\ \E p \in PubValues :
          /\ p # None
          /\ ~IsOld(p[1], cutoff)
          /\ pub' = p
    /\ in_window' = in_window + 1
    /\ \E resp \in Responses :
          LET r == post_to_slack(DRY_RUN, resp)
          IN  /\ ~r.ok
              /\ ok' = r.ok
              /\ httpPosts' = httpPosts + (IF r.sent THEN 1 ELSE 0)
    /\ posts' = posts + 1
    /\ lastAttempt' = <<feedIdx + 1, entryIdx + 1>>
    /\ skipped_error' = skipped_error + 1
    /\ entryIdx' = entryIdx + 1
    /\ UNCHANGED <<cfgVars, pc, runVars, total, posted, skipped_old, skipped_no_date,
                   entries, fetchVars, outVars, pdVars>>

\* lines 153-157: the feed's counters are added up and its result line printed
FeedEnd ==
    /\ pc = "feed_end"
    /\ grand_total' = grand_total + total
    /\ grand_in_window' = grand_in_window + in_window
    /\ sumPosted' = sumPosted + posted
    /\ feedIdx' = feedIdx + 1
    /\ pc' = "next_feed"
    /\ UNCHANGED <<cfgVars, cutoff, feeds, grand_posted, feedVars, entryVars,
                   fetchVars, postVars, capInfo, summary, ret, pdVars>>

\* mutant: the summary is printed only when something was posted
EmitSummary_OnlyIfPosted ==
    /\ pc = "next_feed"
    /\ feedIdx = Len(feeds)
    /\ summary' = IF grand_posted > 0
                  THEN <<[feeds |-> Len(feeds), total |-> grand_total,
                          in_window |-> grand_in_window, posted |-> grand_posted,
                          dry_run |-> DRY_RUN]>>
                  ELSE None
    /\ ret' = <<0>>
    /\ pc' = "done"
    /\ UNCHANGED <<cfgVars, runVars, feedVars, entryVars, fetchVars, postVars,
                   sumPosted, capInfo, pdVars>>

\* lines 159-168: the loop over the feeds is over
EmitSummary ==
    /\ pc = "next_feed"
    /\ feedIdx = Len(feeds)
    /\ summary' = <<[feeds |-> Len(feeds), total |-> grand_total,
                     in_window |-> grand_in_window, posted |-> grand_posted,
                     dry_run |-> DRY_RUN]>>
    /\ ret' = <<0>>
    /\ pc' = "done"
    /\ UNCHANGED <<cfgVars, runVars, feedVars, entryVars, fetchVars, postVars,
                   sumPosted, capInfo, pdVars>>

\* ---- the run of main() ---------------------------------------------------
\* nothing has run yet
Fresh ==
    /\ cutoff = 0
    /\ feeds = <<>>
    /\ feedIdx = 0
    /\ grand_total = 0
    /\ grand_in_window = 0
    /\ grand_posted = 0
    /\ total = 0
    /\ in_window = 0
    /\ posted = 0
    /\ skipped_old = 0
    /\ skipped_no_date = 0
    /\ skipped_error = 0
    /\ entries = 0
    /\ entryIdx = 0
    /\ pub = None
    /\ ok = FALSE
    /\ fetchLog = <<>>
    /\ sumEntries = 0
    /\ sumPosted = 0
    /\ posts = 0
    /\ httpPosts = 0
    /\ lastAttempt = <<0, 0>>
    /\ capInfo = FALSE
    /\ summary = None
    /\ ret = None
    /\ pd = None

Init ==
    /\ FEED_URLS \in FeedUrlStrings
    /\ WEBHOOK \in {"", "hook"}
    /\ WINDOWMIN \in 0..MaxWindow
    /\ DRY_RUN \in BOOLEAN
    /\ MAX_POSTS \in -1..MaxCap
    /\ pc = "start"
    /\ entry = NoEntry
    /\ Fresh

Next ==
    \/ MissingWebhook
    \/ EmptyFeedUrls
    \/ StartRun
    \/ FetchRaises
    \/ FetchOk
    \/ CapBreak
    \/ EntriesDone
    \/ EntryNoDate
    \/ EntryOld
    \/ EntryPosted
    \/ EntryPostFailed
    \/ FeedEnd
    \/ EmitSummary

Spec == Init /\ [][Next]_vars

\* main() runs on: every statement returns (the webhook call has a timeout)
FairSpec == Spec /\ WF_vars(Next)

\* ---- parse_pubdate on its own --------------------------------------------
InitPD ==
    /\ FEED_URLS = EmptyString
    /\ WEBHOOK = ""
    /\ WINDOWMIN = 0
    /\ DRY_RUN = TRUE
    /\ MAX_POSTS = 0
    /\ pc = "pd_call"
    /\ entry \in AllEntries
    /\ Fresh

\* line 118: pub = parse_pubdate(entry)
ParsePubdate ==
    /\ pc = "pd_call"
    /\ pd' = parse_pubdate(entry)
    /\ pc' = "pd_return"
    /\ UNCHANGED <<cfgVars, runVars, feedVars, entryVars, fetchVars, postVars,
                   outVars, entry>>

NextPD == ParsePubdate

SpecPD == InitPD /\ [][NextPD]_vars

\* ---- properties -----------------------------------------------------------
\* in_window + skipped_no_date + skipped_old of the feed being processed
Classified == in_window + skipped_no_date + skipped_old

\* the run got past the input check (lines 76-81)
Running == WEBHOOK # "" /\ FEED_URLS # EmptyString

\* the last call of feedparser.parse raised
LastFetchRaised == fetchLog # <<>> /\ fetchLog[Len(fetchLog)].raised

\* position a of the linear pass over (feed, entry) comes before position b
Before(a, b) == a[1] < b[1] \/ (a[1] = b[1] /\ a[2] < b[2])

\* C1: with MAX_POSTS >= 0 the run-wide posted counter never exceeds MAX_POSTS,
\* and it always equals the sum of the per-feed posted counters (the finished
\* feeds' plus the current feed's).
C1_CapNeverExceeded ==
    /\ MAX_POSTS >= 0 => grand_posted <= MAX_POSTS
    /\ grand_posted =
          sumPosted + (IF pc \in {"next_entry", "feed_end"} THEN posted ELSE 0)

\* C1 witness: the cap of two is reached by one post in each of two feeds, with
\* an entry of the second feed still to come.
C1_Witness ==
    /\ MAX_POSTS = 2
    /\ grand_posted = 2
    /\ sumPosted = 1
    /\ posted = 1
    /\ pc = "next_entry"
    /\ entryIdx < entries

\* C2 as claimed: whenever a feed's result line is reported,
\* total = in_window + skipped_no_date + skipped_old.
C2_Original ==
    pc = "feed_end" => total = Classified

\* C2 amended: when a feed's result line is reported, total is the classified
\* entries plus the entries left uninspected; the two sides of the claimed
\* equation are equal exactly when the loop was not left at the post cap.
C2_Amended ==
    pc = "feed_end" =>
        /\ Classified <= total
        /\ (Classified = total) <=> ~capInfo
        /\ LastFetchRaised => total = 0 /\ Classified = 0
        /\ ~LastFetchRaised => total = Classified + (entries - entryIdx)

\* C2 witness: a feed of two entries left at the cap after its first entry
\* was posted.
C2_Witness ==
    /\ pc = "feed_end"
    /\ capInfo
    /\ total = 2
    /\ posted = 1
    /\ Classified = 1

\* C3: main() returns non-zero exactly when the webhook is missing, and then
\* nothing is fetched and nothing is posted; every other run returns 0.
C3_ExitCode ==
    /\ WEBHOOK = "" =>
          fetchLog = <<>> /\ posts = 0 /\ httpPosts = 0 /\ summary = None
    /\ pc = "done" =>
          /\ ret \in {<<0>>, <<2>>}
          /\ (ret # <<0>>) <=> (WEBHOOK = "")

\* C3 witness: the run returned 2 with a feed list configured.
C3_Witness ==
    /\ pc = "done"
    /\ WEBHOOK = ""
    /\ FEED_URLS # EmptyString
    /\ ret = <<2>>

\* C4: a feed whose fetch raises reports total, in_window and posted 0 and one
\* error, leaves the run-wide counters as they were, is followed by the next
\* configured feed (the feeds are fetched in their configured order, all of
\* them), and the run ends with the summary and exit code 0.
C4_FetchFailureIsolated ==
    /\ [](pc = "feed_end" /\ LastFetchRaised =>
            /\ total = 0 /\ in_window = 0 /\ posted = 0
            /\ skipped_old = 0 /\ skipped_no_date = 0
            /\ skipped_error = 1)
    /\ [][LastFetchRaised' =>
            /\ UNCHANGED <<grand_total, grand_in_window, grand_posted>>
            /\ (pc = "feed_end" => pc' = "next_feed" /\ feedIdx' = feedIdx + 1)]_vars
    /\ [](\A i \in 1..Len(fetchLog) :
            i <= Len(feeds) /\ fetchLog[i].url = feeds[i])
    /\ [](pc = "done" /\ Running =>
            Len(fetchLog) = Len(feeds) /\ summary # None /\ ret = <<0>>)

\* C4 witness: the first feed's fetch raised, the second feed was fetched and
\* an entry of it posted, and the run ended.
C4_Witness ==
    /\ pc = "done"
    /\ Len(fetchLog) = 2
    /\ fetchLog[1].raised
    /\ ~fetchLog[2].raised
    /\ grand_posted >= 1
    /\ summary # None

\* C5: every post attempt is at a later position of the pass than the one
\* before it (no entry is attempted twice); a failed attempt adds one to the
\* feed's error counter, leaves posted and the run-wide posted count alone,
\* and the loop goes on to the next entry.
C5_FailedPost ==
    [][posts' # posts =>
          /\ posts' = posts + 1
          /\ Before(lastAttempt, lastAttempt')
          /\ lastAttempt' = <<feedIdx + 1, entryIdx + 1>>
          /\ ~ok' =>
                /\ skipped_error' = skipped_error + 1
                /\ posted' = posted
                /\ grand_posted' = grand_posted
                /\ sumPosted' = sumPosted
                /\ entryIdx' = entryIdx + 1
                /\ feedIdx' = feedIdx
                /\ pc' = "next_entry"]_vars

\* C5 witness: the first entry's post failed and the second entry was then
\* posted.
C5_Witness ==
    /\ lastAttempt = <<1, 2>>
    /\ ok
    /\ skipped_error = 1
    /\ posted = 1
    /\ posts = 2

\* C6: under DRY_RUN no HTTP POST is ever issued, every in-window entry is
\* counted as posted (per feed and run-wide), and the cap still holds.
C6_DryRun ==
    DRY_RUN =>
        /\ httpPosts = 0
        /\ posted = in_window
        /\ grand_posted = posts
        /\ pc \in {"next_feed", "done"} => grand_posted = grand_in_window
        /\ MAX_POSTS >= 0 => grand_posted <= MAX_POSTS

\* C6 witness: a dry run counted two posts, reached the cap and left a feed
\* at it.
C6_Witness ==
    /\ DRY_RUN
    /\ MAX_POSTS = 2
    /\ grand_posted = 2
    /\ posts = 2
    /\ capInfo

\* C7 as claimed: a run that passed the webhook check has emitted the summary
\* when it ends.
C7_Original ==
    pc = "done" /\ WEBHOOK # "" => summary # None

\* C7 amended: a run that passed the webhook check and whose FEED_URLS is not
\* empty eventually emits the summary, and has emitted it when it ends.
C7_Amended ==
    /\ [](pc = "start" /\ Running => <>(summary # None))
    /\ [](pc = "done" /\ Running => summary # None)

\* C7 witness: the summary was emitted by a run of two feeds whose fetches
\* both raised.
C7_Witness ==
    /\ pc = "done"
    /\ summary # None
    /\ Len(fetchLog) = 2
    /\ fetchLog[1].raised
    /\ fetchLog[2].raised

\* C8: an inspected entry adds one to exactly one of skipped_no_date (no
\* date), skipped_old (date < cutoff) and in_window (date >= cutoff), and only
\* an in_window entry is posted.
C8_Classification ==
    [][/\ entryIdx' = entryIdx + 1 =>
            /\ pub' = None =>
                  /\ skipped_no_date' = skipped_no_date + 1
                  /\ UNCHANGED <<skipped_old, in_window>>
            /\ (pub' # None /\ pub'[1] < cutoff) =>
                  /\ skipped_old' = skipped_old + 1
                  /\ UNCHANGED <<skipped_no_date, in_window>>
            /\ (pub' # None /\ pub'[1] >= cutoff) =>
                  /\ in_window' = in_window + 1
                  /\ UNCHANGED <<skipped_no_date, skipped_old>>
       /\ posts' # posts =>
            /\ entryIdx' = entryIdx + 1
            /\ in_window' = in_window + 1
            /\ pub' # None /\ pub'[1] >= cutoff]_vars

\* C8 witness: an old entry, then an entry dated exactly at the cutoff that was
\* counted in the window and posted.
C8_Witness ==
    /\ pc = "next_entry"
    /\ entryIdx = 2
    /\ skipped_old = 1
    /\ pub = <<cutoff>>
    /\ in_window = 1
    /\ lastAttempt = <<feedIdx + 1, 2>>

\* C9: parse_pubdate returns the instant of the first usable candidate in the
\* order published_parsed, updated_parsed, published, updated, created, and
\* None exactly when no candidate is usable.
CandidateKeys == StructKeys \o TextKeys

C9_FirstUsableCandidate ==
    pc = "pd_return" =>
        LET usable == {i \in 1..Len(CandidateKeys) :
                          entry[CandidateKeys[i]].kind \in {"time", "text"}}
        IN  IF usable = {}
            THEN pd = None
            ELSE LET first == CHOOSE i \in usable : \A j \in usable : i <= j
                     v == entry[CandidateKeys[first]]
                 IN  pd = IF v.kind = "time" THEN <<v.t>>
                          ELSE IF v.utcoffset = None THEN <<v.local>>
                          ELSE <<v.local - v.utcoffset[1]>>

\* C9 witness: the first three candidates are unusable, `updated` carries an
\* offset and is returned converted, `created` holds another date.
C9_Witness ==
    /\ pc = "pd_return"
    /\ entry.published_parsed.kind = "malformed"
    /\ entry.updated_parsed.kind = "absent"
    /\ entry.published.kind = "garbage"
    /\ entry.updated = [kind |-> "text", local |-> 2, utcoffset |-> <<1>>]
    /\ entry.created = [kind |-> "text", local |-> 0, utcoffset |-> None]
    /\ pd = <<1>>

\* C10: once the run-wide posted count has reached MAX_POSTS nothing more is
\* posted and no entry is classified (a feed's counters only go back to 0 when
\* the next feed starts), while every feed is still fetched and its entry
\* count added to the run total.
C10_AfterCap ==
    /\ [][grand_posted >= MAX_POSTS =>
            /\ posts' = posts
            /\ grand_posted' = grand_posted
            /\ IF pc = "next_feed" /\ pc' # "done"
               THEN in_window' = 0 /\ skipped_no_date' = 0 /\ skipped_old' = 0
               ELSE UNCHANGED <<in_window, skipped_no_date, skipped_old, entryIdx>>]_vars
    /\ [](pc \in {"next_feed", "done"} => grand_total = sumEntries)
    /\ [](pc = "feed_end" /\ ~LastFetchRaised => total = entries)
    /\ [](pc = "done" /\ Running => Len(fetchLog) = Len(feeds))

\* C10 witness: with a cap of one, the first feed's first entry was posted and
\* its second left alone; the second feed's two entries were fetched, counted
\* in the run total and not inspected.
C10_Witness ==
    /\ pc = "done"
    /\ MAX_POSTS = 1
    /\ grand_posted = 1
    /\ Len(fetchLog) = 2
    /\ grand_total = 4
    /\ grand_in_window = 1
    /\ total = 2
    /\ Classified = 0
    /\ capInfo

====
